---------------------------- MODULE Spec2Model ----------------------------
(* cvmap: reconciliation of the annotation table against the labels of an *)
(* SVG document, and the in-place rewriting of the document tree.         *)
(* Strings are sequences of one-character strings, so that whitespace     *)
(* trimming is computed and not assumed.  None and the empty string are   *)
(* both the empty sequence: the code only ever tests them for truthiness. *)
EXTENDS Integers, Sequences, FiniteSets, TLC

VARIABLES pc, element_list, data_fromtoml, data2write, remerged, root, root_in,
          args, fill_color, exc, svg_file, toml_file, backup_file, written

vars == <<pc, element_list, data_fromtoml, data2write, remerged, root, root_in,
          args, fill_color, exc, svg_file, toml_file, backup_file, written>>

(* the files of a run: the document, the annotation table and its backup *)
diskVars == <<svg_file, toml_file, backup_file, written>>

-----------------------------------------------------------------------------
(* Bounds *)
MaxRecs == 3
MaxLabels == 3
MaxKids == 2
MaxEntries == 2
MaxLines == 2

-----------------------------------------------------------------------------
(* Strings *)
None == <<>>
A == <<"A">>
B == <<"B">>
C == <<"C">>
Tip == <<"t">>
Url == <<"h">>

Range(s) == {s[i] : i \in 1..Len(s)}

Whitespace == {" ", "\t", "\n"}

SeqsUpTo(S, n) == UNION {[1..k -> S] : k \in 0..n}

-----------------------------------------------------------------------------
(* Annotation records: cvmap.py:38 fieldnames = element, balloon, link *)
NewRecord(element) == [element |-> element, balloon |-> None, link |-> None]

RECURSIVE KeepRows(_, _, _, _)
(* cvmap.py:165-172, the loop over the rows read from the table *)
KeepRows(rows, i, labels, acc) ==
    IF i > Len(rows) THEN acc
    ELSE IF rows[i].element \in Range(labels)
         THEN KeepRows(rows, i + 1, labels,
                       [data |-> Append(acc.data, rows[i]),
                        processed |-> acc.processed \cup {rows[i].element}])
         ELSE KeepRows(rows, i + 1, labels, acc)

RECURSIVE AddNewRows(_, _, _, _)
(* cvmap.py:174-176, the loop over the labels of the document *)
AddNewRows(labels, i, processed, data) ==
    IF i > Len(labels) THEN data
    ELSE IF labels[i] \notin processed
         THEN AddNewRows(labels, i + 1, processed, Append(data, NewRecord(labels[i])))
         ELSE AddNewRows(labels, i + 1, processed, data)

(* a reconciler that marks nothing as processed: every label gets a new row *)
merge_file_data_NoSeen(rows, labels) ==
    LET kept == KeepRows(rows, 1, labels, [data |-> <<>>, processed |-> {}])
    IN  AddNewRows(labels, 1, {}, kept.data)

(* a reconciler that puts the new rows before the kept ones *)
merge_file_data_NewFirst(rows, labels) ==
    LET kept == KeepRows(rows, 1, labels, [data |-> <<>>, processed |-> {}])
    IN  AddNewRows(labels, 1, kept.processed, <<>>) \o kept.data

merge_file_data(rows, labels) ==
    LET kept == KeepRows(rows, 1, labels, [data |-> <<>>, processed |-> {}])
    IN  AddNewRows(labels, 1, kept.processed, kept.data)

-----------------------------------------------------------------------------
(* Document tree: xml.etree.ElementTree elements.  id stands for the      *)
(* identity of an element object of the parsed document; the elements the *)
(* rewriter creates are never looked up by identity and carry id 0.       *)
SVG_NAMESPACE_URI == "{svg}"
XLINK_NAMESPACE_URI == "{xlink}"
SvgTag == "{svg}svg"
GTag == "{svg}g"
TextTag == "{svg}text"
TspanTag == "{svg}tspan"
SvgTitleTag == "{svg}title"
SvgATag == "{svg}a"
RectTag == "{svg}rect"
HrefAttr == "{xlink}href"
NoAttrib == [n \in {} |-> None]

Element(id, tag, attrib, text, tail, children) ==
    [id |-> id, tag |-> tag, attrib |-> attrib, text |-> text, tail |-> tail,
     children |-> children]

SpA == <<" ", "A">>

Text(id, text, children) == Element(id, TextTag, NoAttrib, text, None, children)
Rect(id) == Element(id, RectTag, NoAttrib, None, None, <<>>)
Group(id, children) == Element(id, GTag, NoAttrib, None, None, children)

(* no element: None where the code expects an element *)
NoElement == Element(0 - 1, "", NoAttrib, None, None, <<>>)

RemoveAt(s, p) == [j \in 1..(Len(s) - 1) |-> IF j < p THEN s[j] ELSE s[j + 1]]

(* list.insert(index, x) with a 0-based index, clipped to the length *)
InsertAt(s, index, x) ==
    LET at == IF index > Len(s) THEN Len(s) ELSE index
    IN  [j \in 1..(Len(s) + 1) |->
            IF j <= at THEN s[j] ELSE IF j = at + 1 THEN x ELSE s[j - 1]]

ReplaceAt(s, p, x) == [s EXCEPT ![p] = x]

(* position of the element object with this identity in a child list, 0 if absent *)
IndexOfId(s, id) ==
    IF \E j \in 1..Len(s) : s[j].id = id
    THEN CHOOSE j \in 1..Len(s) : s[j].id = id /\ \A k \in 1..(j - 1) : s[k].id # id
    ELSE 0

(* Element.find(tag): position of the first direct child with that tag, 0 if none *)
FindChild(s, tag) ==
    IF \E j \in 1..Len(s) : s[j].tag = tag
    THEN CHOOSE j \in 1..Len(s) : s[j].tag = tag /\ \A k \in 1..(j - 1) : s[k].tag # tag
    ELSE 0

-----------------------------------------------------------------------------
(* modify_text_tags *)
RECURSIVE BuildMapFirstWins(_, _, _)
(* a lookup in which the first row of a key wins *)
BuildMapFirstWins(data, i, map) ==
    IF i > Len(data) THEN map
    ELSE LET entry == data[i]
         IN  IF entry.element # None /\ (entry.balloon # None \/ entry.link # None)
             THEN BuildMapFirstWins(data, i + 1,
                      map @@ (entry.element :> [balloon |-> entry.balloon, link |-> entry.link]))
             ELSE BuildMapFirstWins(data, i + 1, map)

RECURSIVE BuildMap(_, _, _)
(* cvmap.py:207-217 *)
BuildMap(data, i, map) ==
    IF i > Len(data) THEN map
    ELSE LET entry == data[i]
         IN  IF entry.element # None /\ (entry.balloon # None \/ entry.link # None)
             THEN BuildMap(data, i + 1,
                      (entry.element :> [balloon |-> entry.balloon, link |-> entry.link]) @@ map)
             ELSE BuildMap(data, i + 1, map)

text_info_map_FirstWins(data) == BuildMapFirstWins(data, 1, NoAttrib)

text_info_map(data) == BuildMap(data, 1, NoAttrib)

(* a rewriter that leaves the direct text in place beside the <title> *)
WithBalloon_KeepText(child, balloon_text) ==
    LET existing_title == FindChild(child.children, "title")
        kids == IF existing_title # 0 THEN RemoveAt(child.children, existing_title)
                ELSE child.children
    IN  IF balloon_text # None
        THEN [child EXCEPT !.children = InsertAt(kids, 0,
                               Element(0, "title", NoAttrib, balloon_text, child.text, <<>>))]
        ELSE [child EXCEPT !.children = kids]

(* a rewriter that neither removes an earlier <title> nor clears the text *)
WithBalloon_Accumulate(child, balloon_text) ==
    IF balloon_text # None
    THEN [child EXCEPT !.children = InsertAt(child.children, 0,
                           Element(0, "title", NoAttrib, balloon_text, child.text, <<>>))]
    ELSE child

(* cvmap.py:248-265: the <title> handling of one matched <text> element *)
WithBalloon(child, balloon_text) ==
    LET existing_title == FindChild(child.children, "title")
        kids == IF existing_title # 0 THEN RemoveAt(child.children, existing_title)
                ELSE child.children
        original_text_content == child.text
    IN  IF balloon_text # None
        THEN [child EXCEPT !.text = None,
                           !.children = InsertAt(kids, 0,
                               Element(0, "title", NoAttrib, balloon_text,
                                       original_text_content, <<>>))]
        ELSE [child EXCEPT !.text = original_text_content, !.children = kids]

(* cvmap.py:276-277, 283: the <a> element around a <text> element *)
ATag(link_url, child) ==
    Element(0, "a", (HrefAttr :> link_url) @@ ("target" :> <<"_blank">>), None, None, <<child>>)

(* a rewriter that appends the <a> element instead of inserting it in place *)
PlaceLink_AtEnd(live, child_index, child, a_tag) ==
    Append(RemoveAt(live, IndexOfId(live, child.id)), a_tag)

(* cvmap.py:281-285: remove the <text> element, insert the <a> at child_index *)
PlaceLink(live, child_index, child, a_tag) ==
    InsertAt(RemoveAt(live, IndexOfId(live, child.id)), child_index, a_tag)

RECURSIVE lstrip(_)
lstrip(s) == IF s # <<>> /\ Head(s) \in Whitespace THEN lstrip(Tail(s)) ELSE s

RECURSIVE rstrip(_)
rstrip(s) ==
    IF s # <<>> /\ s[Len(s)] \in Whitespace THEN rstrip(SubSeq(s, 1, Len(s) - 1)) ELSE s

(* str.strip() *)
strip(s) == rstrip(lstrip(s))

(* a rewriter that trims the text before the lookup *)
current_text_content_Stripped(child) == strip(child.text)

(* cvmap.py:232 *)
current_text_content(child) == child.text

RECURSIVE ChildLoop(_, _, _, _)
(* cvmap.py:229-285: the loop over the snapshot list(parent); live is the *)
(* child list of parent as mutated so far                                 *)
ChildLoop(snapshot, i, live, map) ==
    IF i > Len(snapshot) THEN live
    ELSE LET child == snapshot[i]
             child_index == i - 1
         IN  IF /\ child.tag = TextTag
                /\ current_text_content(child) # None
                /\ current_text_content(child) \in DOMAIN map
             THEN LET info == map[current_text_content(child)]
                      annotated == WithBalloon(child, info.balloon)
                  IN  IF info.link # None
                      THEN ChildLoop(snapshot, i + 1,
                               PlaceLink(live, child_index, child, ATag(info.link, annotated)),
                               map)
                      ELSE ChildLoop(snapshot, i + 1,
                               ReplaceAt(live, IndexOfId(live, child.id), annotated), map)
             ELSE ChildLoop(snapshot, i + 1, live, map)

RECURSIVE Walk(_, _)
(* cvmap.py:220-226: root_element.iter() yields an element, the body runs *)
(* on it, and the iteration then descends into its current children      *)
Walk(parent, map) ==
    LET visited == IF parent.tag \in {SvgTag, GTag}
                   THEN [parent EXCEPT !.children = ChildLoop(parent.children, 1, parent.children, map)]
                   ELSE parent
    IN  [visited EXCEPT !.children = [j \in 1..Len(visited.children) |-> Walk(visited.children[j], map)]]

(* cvmap.py:180-291 *)
modify_text_tags(root_element, data) ==
    IF data = <<>> THEN root_element
    ELSE Walk(root_element, text_info_map(data))

-----------------------------------------------------------------------------
(* get_inherited_fill_color and add_explanation_text.  Results of a call  *)
(* are [exc, value]: exc names the exception that left the function.      *)
Black == <<"#", "0", "0", "0", "0", "0", "0">>

RECURSIVE Iter(_)
RECURSIVE IterAll(_, _)
(* Element.iter(): the element and its descendants in document order *)
Iter(node) == <<node>> \o IterAll(node.children, 1)
IterAll(children, j) ==
    IF j > Len(children) THEN <<>> ELSE Iter(children[j]) \o IterAll(children, j + 1)

(* cvmap.py:335: next(root_element.iter(text)), NoElement if there is none *)
FirstTextTag(it) ==
    IF \E j \in 1..Len(it) : it[j].tag = TextTag
    THEN it[CHOOSE j \in 1..Len(it) : it[j].tag = TextTag /\ \A k \in 1..(j - 1) : it[k].tag # TextTag]
    ELSE NoElement

(* cvmap.py:293-315 *)
get_parent(root_element, child) ==
    LET it == Iter(root_element)
        HasChild(j) == \E k \in 1..Len(it[j].children) : it[j].children[k].id = child.id
    IN  IF \E j \in 1..Len(it) : HasChild(j)
        THEN it[CHOOSE j \in 1..Len(it) : HasChild(j) /\ \A k \in 1..(j - 1) : ~HasChild(k)]
        ELSE NoElement

RECURSIVE ElementPath(_, _)
(* cvmap.py:342-349 *)
ElementPath(root_element, current_element) ==
    IF current_element = NoElement THEN <<>>
    ELSE <<current_element>> \o
         (IF current_element.id = root_element.id THEN <<>>
          ELSE ElementPath(root_element, get_parent(root_element, current_element)))

RECURSIVE FillWalkAttrFirst(_, _)
(* a resolver that reads the fill attribute and never the style *)
FillWalkAttrFirst(element_path, i) ==
    IF i > Len(element_path) THEN [exc |-> "none", value |-> Black]
    ELSE IF "fill" \in DOMAIN element_path[i].attrib
         THEN [exc |-> "none", value |-> element_path[i].attrib["fill"]]
         ELSE FillWalkAttrFirst(element_path, i + 1)

RECURSIVE FillWalk(_, _)
(* cvmap.py:353-368; line 356 calls the attribute dict, which raises TypeError *)
FillWalk(element_path, i) ==
    IF i > Len(element_path) THEN [exc |-> "none", value |-> Black]
    ELSE IF "style" \in DOMAIN element_path[i].attrib
         THEN [exc |-> "TypeError", value |-> None]
         ELSE IF "fill" \in DOMAIN element_path[i].attrib
              THEN [exc |-> "none", value |-> element_path[i].attrib["fill"]]
              ELSE FillWalk(element_path, i + 1)

(* cvmap.py:317-368 *)
get_inherited_fill_color(root_element) ==
    LET first_text_tag == FirstTextTag(Iter(root_element))
    IN  IF first_text_tag = NoElement THEN [exc |-> "none", value |-> Black]
        ELSE FillWalk(ElementPath(root_element, first_text_tag), 1)

(* Numbers as text.  The heights and coordinates of the caption are kept  *)
(* in tenths: font_size * 1.2 is 12 * font_size tenths.  The sums are     *)
(* exact; the code forms them in binary floating point.                   *)
Digits == <<"0", "1", "2", "3", "4", "5", "6", "7", "8", "9">>
DigitVal(c) == (CHOOSE d \in 1..10 : Digits[d] = c) - 1

RECURSIVE DigitsValue(_, _)
DigitsValue(s, acc) ==
    IF s = <<>> THEN acc ELSE DigitsValue(Tail(s), 10 * acc + DigitVal(Head(s)))

(* int(text): surrounding whitespace allowed, digits only; ok is FALSE for ValueError *)
ParseInt(s) ==
    LET t == strip(s)
    IN  IF t # <<>> /\ \A i \in 1..Len(t) : t[i] \in Range(Digits)
        THEN [ok |-> TRUE, value |-> DigitsValue(t, 0)]
        ELSE [ok |-> FALSE, value |-> 0]

RECURSIVE IntStr(_)
(* str(n) of a natural number *)
IntStr(n) == IF n < 10 THEN <<Digits[n + 1]>> ELSE Append(IntStr(n \div 10), Digits[(n % 10) + 1])

(* str(x) of the float x = tenths / 10 *)
FloatStr(tenths) == IntStr(tenths \div 10) \o <<".">> \o <<Digits[(tenths % 10) + 1]>>

SetAttr(attrib, name, value) == (name :> value) @@ attrib

(* cvmap.py:413-414: a bare string becomes a list of one line; the argument *)
(* is held as [isList, lines], lines being that list for a bare string      *)
Lines(explanation_text) == explanation_text.lines

(* truth value of the additional_link argument: None, "" and [] are false *)
Truthy(additional_link) ==
    \/ additional_link.kind = "str"
    \/ additional_link.kind = "list" /\ additional_link.items # <<>>

(* cvmap.py:422-425, with the link line left out of the count *)
num_lines_NoLinkLine(explanation_text, additional_link) == Len(Lines(explanation_text))

(* cvmap.py:422-425 *)
num_lines(explanation_text, additional_link) ==
    IF Truthy(additional_link) THEN Len(Lines(explanation_text)) + 1
    ELSE Len(Lines(explanation_text))

(* cvmap.py:435-446, 476-484: the attributes of a caption <text> *)
CaptionAttrib(x, y, font_size, fill) ==
    ("x" :> x) @@ ("y" :> y) @@ ("font-size" :> IntStr(font_size)) @@ ("fill" :> fill)
        @@ ("font-family" :> <<"Arial, sans-serif">>) @@ ("stroke" :> <<"none">>)
        @@ ("stroke-width" :> <<"0">>)

DefaultHeight == 400
text_height_em == 12

(* cvmap.py:448-461: one <tspan> per caption line *)
Tspan(text_x_coord, i, line) ==
    Element(0, TspanTag,
            ("x" :> text_x_coord) @@ ("dy" :> (IF i = 1 THEN <<"0", "e", "m">> ELSE <<"1", ".", "2">>)),
            line, None, <<>>)

(* cvmap.py:463-488: the link caption; items are [isStr, value] *)
LinkCaption(root_element, additional_link, text_x_coord, link_y_pos, font_size, fill) ==
    IF ~Truthy(additional_link) THEN [exc |-> "none", root |-> root_element]
    ELSE IF additional_link.kind # "list" THEN [exc |-> "none", root |-> root_element]
    ELSE IF ~additional_link.items[1].isStr THEN [exc |-> "none", root |-> root_element]
    ELSE IF Len(additional_link.items) < 2 THEN [exc |-> "IndexError", root |-> root_element]
    ELSE IF ~additional_link.items[2].isStr THEN [exc |-> "none", root |-> root_element]
    ELSE LET link_text_element ==
                 Element(0, TextTag,
                         CaptionAttrib(text_x_coord, FloatStr(link_y_pos), font_size, fill),
                         additional_link.items[2].value, None, <<>>)
             a_element ==
                 Element(0, SvgATag,
                         (HrefAttr :> additional_link.items[1].value) @@ ("target" :> <<"_blank">>),
                         None, None, <<link_text_element>>)
         IN  [exc |-> "none",
              root |-> [root_element EXCEPT !.children = Append(@, a_element)]]

(* cvmap.py:370-489; the result is the tree and the exception that ended the call *)
add_explanation_text(root_element, explanation_text, position_offset, font_size, additional_link) ==
    LET parsed == IF "height" \in DOMAIN root_element.attrib
                  THEN ParseInt(root_element.attrib["height"])
                  ELSE [ok |-> TRUE, value |-> DefaultHeight]
        svg_height == IF parsed.ok THEN parsed.value ELSE DefaultHeight
        text_x_coord == IntStr(position_offset[1])
        lines == Lines(explanation_text)
        n == num_lines(explanation_text, additional_link)
        line_spacing_px == font_size * text_height_em
        new_height == 10 * svg_height + n * line_spacing_px + 10 * position_offset[2]
        resized == [root_element EXCEPT
                       !.attrib = SetAttr(@, "height", FloatStr(new_height))]
        text_y_firstline == new_height - 10 * position_offset[2] - n * line_spacing_px
        fill == get_inherited_fill_color(resized)
        explanation_text_elem ==
            Element(0, TextTag,
                    CaptionAttrib(text_x_coord, FloatStr(text_y_firstline), font_size, fill.value),
                    None, None,
                    [i \in 1..Len(lines) |-> Tspan(text_x_coord, i, lines[i])])
        captioned == [resized EXCEPT !.children = Append(@, explanation_text_elem)]
        link_y_pos == text_y_firstline + (n - 1) * line_spacing_px
    IN  IF fill.exc # "none" THEN [exc |-> fill.exc, root |-> resized]
        ELSE LinkCaption(captioned, additional_link, text_x_coord, link_y_pos, font_size,
                         fill.value)

-----------------------------------------------------------------------------
(* Specification of the style resolver and the caption layout *)
Red == <<"r">>
Blue == <<"b">>
StyleFillRed == <<"f", "i", "l", "l", " ", ":", " ", "r", " ", ";", "x", ":", "y">>
StyleNoFill == <<"x", ":", "y">>

(* the presentation attributes one level of the tree may carry *)
LevelAttribs ==
    {NoAttrib, [fill |-> Blue], [style |-> StyleFillRed], [style |-> StyleNoFill],
     [style |-> StyleFillRed, fill |-> Blue], [style |-> StyleNoFill, fill |-> Blue]}

HeightAttribs ==
    {NoAttrib, [height |-> <<"4", "0", "0">>, width |-> <<"7">>],
     [height |-> <<"4", "3", "4", ".", "4">>]}

CaptionTrees ==
    UNION {
      {Element(1, SvgTag, h @@ l[1], None, None,
               <<Element(2, GTag, l[2], None, None, <<Element(3, TextTag, l[3], A, None, <<>>)>>)>>),
       Element(1, SvgTag, h @@ l[1], None, None,
               <<Element(2, GTag, [fill |-> Red], None, None, <<Element(3, RectTag, NoAttrib, None, None, <<>>)>>),
                 Element(4, GTag, l[2], None, None, <<Element(5, TextTag, l[3], A, None, <<>>)>>)>>),
       Element(1, SvgTag, h @@ l[1], None, None,
               <<Element(2, TextTag, l[3], A, None, <<>>), Element(3, RectTag, l[2], None, None, <<>>)>>),
       Element(1, SvgTag, h @@ l[1], None, None, <<Element(2, RectTag, l[2], None, None, <<>>)>>)} :
      h \in HeightAttribs, l \in [1..3 -> LevelAttribs]}

LinkArgs ==
    {[kind |-> "none", items |-> <<>>],
     [kind |-> "str", items |-> <<>>],
     [kind |-> "list", items |-> <<>>],
     [kind |-> "list", items |-> <<[isStr |-> TRUE, value |-> Url]>>],
     [kind |-> "list", items |-> <<[isStr |-> TRUE, value |-> Url], [isStr |-> TRUE, value |-> A]>>],
     [kind |-> "list", items |-> <<[isStr |-> TRUE, value |-> Url], [isStr |-> TRUE, value |-> A],
                                   [isStr |-> TRUE, value |-> B]>>],
     [kind |-> "list", items |-> <<[isStr |-> FALSE, value |-> Url], [isStr |-> TRUE, value |-> A]>>],
     [kind |-> "list", items |-> <<[isStr |-> TRUE, value |-> Url], [isStr |-> FALSE, value |-> A]>>]}

TextArgs ==
    {[isList |-> TRUE, lines |-> [i \in 1..n |-> A]] : n \in 0..MaxLines}
        \cup {[isList |-> FALSE, lines |-> <<A>>]}

(* font size with position offset *)
LayoutArgs == {[font_size |-> 12, position_offset |-> <<20, 20>>],
               [font_size |-> 10, position_offset |-> <<5, 0>>]}

InitCaption ==
    /\ pc = "caption"
    /\ root \in CaptionTrees
    /\ root_in = root
    /\ args \in [explanation_text : TextArgs, layout : LayoutArgs, additional_link : LinkArgs]
    /\ fill_color = <<>>
    /\ exc = "none"
    /\ svg_file = <<>>
    /\ toml_file = <<>>
    /\ backup_file = <<>>
    /\ written = "no"
    /\ element_list = <<>>
    /\ data_fromtoml = <<>>
    /\ data2write = <<>>
    /\ remerged = <<>>

GetInheritedFillColor ==
    /\ pc = "caption"
    /\ LET result == get_inherited_fill_color(root)
       IN  fill_color' = result.value /\ exc' = result.exc
    /\ pc' = "filled"
    /\ UNCHANGED <<element_list, data_fromtoml, data2write, remerged, root, root_in, args>>
    /\ UNCHANGED diskVars

AddExplanationText ==
    /\ pc = "caption"
    /\ LET result == add_explanation_text(root, args.explanation_text,
                                          args.layout.position_offset, args.layout.font_size,
                                          args.additional_link)
       IN  root' = result.root /\ exc' = result.exc
    /\ pc' = "captioned"
    /\ UNCHANGED <<element_list, data_fromtoml, data2write, remerged, root_in, args, fill_color>>
    /\ UNCHANGED diskVars

NextCaption == GetInheritedFillColor \/ AddExplanationText

SpecCaption == InitCaption /\ [][NextCaption]_vars

-----------------------------------------------------------------------------
(* main: one run after the other on the files of the working directory.   *)
(* A file is [state, items]: absent, ok (an item array of records), empty *)
(* (no item array) or malformed.                                          *)
NoFile == [state |-> "absent", items |-> <<>>]

RECURSIVE Labels(_, _)
(* cvmap.py:74-78: the trimmed text of every <text> that has text *)
Labels(text_elements_all, i) ==
    IF i > Len(text_elements_all) THEN <<>>
    ELSE IF text_elements_all[i].text # None
         THEN <<strip(text_elements_all[i].text)>> \o Labels(text_elements_all, i + 1)
         ELSE Labels(text_elements_all, i + 1)

(* cvmap.py:67-79: root.findall(".//text") are the <text> descendants of the root *)
ReadSVG(tree) ==
    Labels(SelectSeq(IterAll(tree.children, 1), LAMBDA e : e.tag = TextTag), 1)

(* cvmap.py:81-113; exit is TRUE where the function calls sys.exit() *)
read_toml_data(file) ==
    CASE file.state = "absent" -> [exit |-> FALSE, data |-> <<>>]
      [] file.state = "ok" -> [exit |-> FALSE, data |-> file.items]
      [] file.state = "empty" -> [exit |-> FALSE, data |-> <<>>]
      [] file.state = "malformed" -> [exit |-> TRUE, data |-> <<>>]

(* a writer that opens the table for appending *)
write_toml_data_Append(file, data, outcome) ==
    IF data = <<>> THEN [file |-> file, written |-> "skipped"]
    ELSE CASE outcome = "ok" ->
                  [file |-> [state |-> "ok", items |-> file.items \o data], written |-> "ok"]
           [] outcome = "open_fails" -> [file |-> file, written |-> "failed"]
           [] outcome = "dump_fails" ->
                  [file |-> [state |-> "empty", items |-> <<>>], written |-> "failed"]

(* cvmap.py:115-139; outcome is what the file system does: the write goes *)
(* through, open() raises, or dump() raises after open() truncated the file *)
write_toml_data(file, data, outcome) ==
    IF data = <<>> THEN [file |-> file, written |-> "skipped"]
    ELSE CASE outcome = "ok" -> [file |-> [state |-> "ok", items |-> data], written |-> "ok"]
           [] outcome = "open_fails" -> [file |-> file, written |-> "failed"]
           [] outcome = "dump_fails" ->
                  [file |-> [state |-> "empty", items |-> <<>>], written |-> "failed"]

DocText(id, attrib, text) == Element(id, TextTag, attrib, text, None, <<>>)

(* the documents a run may find; NoElement is a missing or malformed file *)
MainDocs ==
    {NoElement} \cup
    {Element(1, SvgTag, [height |-> <<"4", "0", "0">>], None, None, kids) : kids \in
        {<<>>,
         <<DocText(2, NoAttrib, A)>>,
         <<DocText(2, NoAttrib, B), Group(3, <<DocText(4, NoAttrib, A)>>)>>,
         <<DocText(2, NoAttrib, SpA)>>,
         <<DocText(2, [style |-> StyleFillRed], A)>>}}

(* cvmap.py:549-550 *)
exp_text == [isList |-> TRUE, lines |-> <<<<"Move your mouse over the items">>>>]
add_link ==
    [kind |-> "list",
     items |-> <<[isStr |-> TRUE, value |-> <<"https://github.com/andreas-techdev/cvmap">>],
                 [isStr |-> TRUE, value |-> <<"Made by cvmap">>]>>]

(* a run has ended (done, crashed, exited) or the user has edited since (idle) *)
Between == {"done", "crashed", "exited", "idle"}

InitMain ==
    /\ pc = "start"
    /\ svg_file \in MainDocs
    /\ toml_file = NoFile
    /\ backup_file = NoFile
    /\ written = "no"
    /\ root = NoElement
    /\ root_in = <<>>
    /\ element_list = <<>>
    /\ data_fromtoml = <<>>
    /\ data2write = <<>>
    /\ remerged = <<>>
    /\ args = <<>>
    /\ fill_color = <<>>
    /\ exc = "none"

memUnchanged == UNCHANGED <<remerged, root_in, args, fill_color>>

(* cvmap.py:526 *)
MainReadSVG ==
    /\ pc = "start"
    /\ IF svg_file = NoElement
       THEN pc' = "exited" /\ UNCHANGED <<root, element_list>>
       ELSE pc' = "backup" /\ root' = svg_file /\ element_list' = ReadSVG(svg_file)
    /\ UNCHANGED <<data_fromtoml, data2write, exc, svg_file, toml_file, backup_file, written>>
    /\ memUnchanged

(* cvmap.py:531-537: the copy may fail, which is reported and ignored *)
MainBackup ==
    /\ pc = "backup"
    /\ IF toml_file.state # "absent"
       THEN backup_file' \in {toml_file, backup_file}
       ELSE backup_file' = backup_file
    /\ pc' = "read_toml"
    /\ UNCHANGED <<root, element_list, data_fromtoml, data2write, exc, svg_file, toml_file,
                   written>>
    /\ memUnchanged

(* cvmap.py:542 *)
MainReadToml ==
    /\ pc = "read_toml"
    /\ LET result == read_toml_data(toml_file)
       IN  IF result.exit
           THEN pc' = "exited" /\ UNCHANGED data_fromtoml
           ELSE pc' = "merge" /\ data_fromtoml' = result.data
    /\ UNCHANGED <<root, element_list, data2write, exc, svg_file, toml_file, backup_file,
                   written>>
    /\ memUnchanged

(* cvmap.py:544 *)
MainMerge ==
    /\ pc = "merge"
    /\ data2write' = merge_file_data(data_fromtoml, element_list)
    /\ pc' = "write"
    /\ UNCHANGED <<root, element_list, data_fromtoml, exc, svg_file, toml_file, backup_file,
                   written>>
    /\ memUnchanged

(* cvmap.py:545 *)
MainWriteToml ==
    /\ pc = "write"
    /\ \E outcome \in {"ok", "open_fails", "dump_fails"} :
           LET result == write_toml_data(toml_file, data2write, outcome)
           IN  toml_file' = result.file /\ written' = result.written
    /\ pc' = "modify"
    /\ UNCHANGED <<root, element_list, data_fromtoml, data2write, exc, svg_file, backup_file>>
    /\ memUnchanged

(* cvmap.py:548 *)
MainModify ==
    /\ pc = "modify"
    /\ root' = modify_text_tags(root, data2write)
    /\ pc' = "caption"
    /\ UNCHANGED <<element_list, data_fromtoml, data2write, exc, svg_file, toml_file,
                   backup_file, written>>
    /\ memUnchanged

(* cvmap.py:551: an exception of add_explanation_text ends the run *)
MainCaption ==
    /\ pc = "caption"
    /\ LET result == add_explanation_text(root, exp_text, <<20, 20>>, 12, add_link)
       IN  /\ root' = result.root
           /\ exc' = result.exc
           /\ pc' = IF result.exc = "none" THEN "output" ELSE "crashed"
    /\ UNCHANGED <<element_list, data_fromtoml, data2write, svg_file, toml_file, backup_file,
                   written>>
    /\ memUnchanged

(* cvmap.py:553-571: the annotated document and the HTML page are written; *)
(* no run reads them back                                                   *)
MainOutput ==
    /\ pc = "output"
    /\ pc' = "done"
    /\ UNCHANGED <<root, element_list, data_fromtoml, data2write, exc, svg_file, toml_file,
                   backup_file, written>>
    /\ memUnchanged

(* between two runs the user replaces the document *)
EditDocument ==
    /\ pc \in Between
    /\ svg_file' \in MainDocs \ {svg_file}
    /\ pc' = "idle"
    /\ UNCHANGED <<root, element_list, data_fromtoml, data2write, exc, toml_file,
                   backup_file, written>>
    /\ memUnchanged

(* between two runs the user writes or clears the balloon of a row of the table *)
EditTable ==
    /\ pc \in Between
    /\ toml_file.state = "ok"
    /\ \E i \in 1..Len(toml_file.items) :
           toml_file' = [toml_file EXCEPT !.items[i].balloon = IF @ = None THEN Tip ELSE None]
    /\ pc' = "idle"
    /\ UNCHANGED <<root, element_list, data_fromtoml, data2write, exc, svg_file,
                   backup_file, written>>
    /\ memUnchanged

(* between two runs the user breaks the syntax of the table, or repairs it *)
BreakOrRepairTable ==
    /\ pc \in Between
    /\ toml_file.state \in {"ok", "malformed"}
    /\ toml_file' = [toml_file EXCEPT !.state = IF @ = "ok" THEN "malformed" ELSE "ok"]
    /\ pc' = "idle"
    /\ UNCHANGED <<root, element_list, data_fromtoml, data2write, exc, svg_file,
                   backup_file, written>>
    /\ memUnchanged

(* the next run starts with nothing in memory *)
StartRun ==
    /\ pc \in Between
    /\ pc' = "start"
    /\ root' = NoElement
    /\ element_list' = <<>>
    /\ data_fromtoml' = <<>>
    /\ data2write' = <<>>
    /\ exc' = "none"
    /\ written' = "no"
    /\ UNCHANGED <<svg_file, toml_file, backup_file>>
    /\ memUnchanged

NextMain ==
    \/ MainReadSVG \/ MainBackup \/ MainReadToml \/ MainMerge \/ MainWriteToml
    \/ MainModify \/ MainCaption \/ MainOutput
    \/ EditDocument \/ EditTable \/ BreakOrRepairTable \/ StartRun

SpecMain == InitMain /\ [][NextMain]_vars

-----------------------------------------------------------------------------
(* Specification of the rewriter: trees and record sequences from bounded sets *)
ItemKinds == 1..12

(* the subtree of kind k whose element identities start at base *)
ItemAt(k, base) ==
    CASE k = 1 -> Text(base, A, <<>>)
      [] k = 2 -> Text(base, B, <<>>)
      [] k = 3 -> Text(base, SpA, <<>>)
      [] k = 4 -> Text(base, None, <<>>)
      [] k = 5 -> Text(base, A, <<Element(base + 1, "title", NoAttrib, Tip, None, <<>>)>>)
      [] k = 6 -> Text(base, A, <<Element(base + 1, SvgTitleTag, NoAttrib, Tip, None, <<>>)>>)
      [] k = 7 -> Text(base, B, <<Element(base + 1, TspanTag, NoAttrib, A, None, <<>>)>>)
      [] k = 8 -> Rect(base)
      [] k = 9 -> Group(base, <<Text(base + 1, B, <<>>), Rect(base + 2), Text(base + 3, A, <<>>)>>)
      [] k = 10 -> Group(base, <<Text(base + 1, A, <<>>), Text(base + 2, A, <<>>)>>)
      [] k = 11 -> Element(base, SvgATag, NoAttrib, None, None,
                           <<Group(base + 1, <<Text(base + 2, A, <<>>)>>), Text(base + 3, A, <<>>)>>)
      [] k = 12 -> Group(base, <<Group(base + 1, <<Text(base + 2, B, <<>>)>>)>>)

Trees ==
    UNION {{Element(1, SvgTag, NoAttrib, None, None, [k \in 1..n |-> ItemAt(sel[k], 10 * k)]) :
               sel \in [1..n -> ItemKinds]} : n \in 0..MaxKids}

ModRecords == [element : {A, B}, balloon : {None, Tip}, link : {None, Url}]

InitModify ==
    /\ pc = "modify"
    /\ root \in Trees
    /\ root_in = root
    /\ data2write \in SeqsUpTo(ModRecords, MaxEntries)
    /\ element_list = <<>>
    /\ data_fromtoml = <<>>
    /\ remerged = <<>>
    /\ args = <<>>
    /\ fill_color = <<>>
    /\ exc = "none"
    /\ svg_file = <<>>
    /\ toml_file = <<>>
    /\ backup_file = <<>>
    /\ written = "no"

ModifyTextTags ==
    /\ pc = "modify"
    /\ root' = modify_text_tags(root, data2write)
    /\ pc' = "modified"
    /\ UNCHANGED <<element_list, data_fromtoml, data2write, remerged, root_in, args, fill_color, exc>>
    /\ UNCHANGED diskVars

(* modify_text_tags called once more on the tree it returned, same records *)
ModifyTextTagsAgain ==
    /\ pc = "modified"
    /\ root_in' = root
    /\ root' = modify_text_tags(root, data2write)
    /\ pc' = "modified_again"
    /\ UNCHANGED <<element_list, data_fromtoml, data2write, remerged, args, fill_color, exc>>
    /\ UNCHANGED diskVars

NextModify == ModifyTextTags \/ ModifyTextTagsAgain

SpecModify == InitModify /\ [][NextModify]_vars

-----------------------------------------------------------------------------
(* Specification of the reconciler: inputs drawn from bounded sets *)
MergeLabels == {A, B, C}
MergeRecords == [element : MergeLabels, balloon : {None, Tip}, link : {None}]

InitMerge ==
    /\ pc = "merge"
    /\ data_fromtoml \in SeqsUpTo(MergeRecords, MaxRecs)
    /\ element_list \in SeqsUpTo(MergeLabels, MaxLabels)
    /\ data2write = <<>>
    /\ remerged = <<>>
    /\ root = <<>>
    /\ root_in = <<>>
    /\ args = <<>>
    /\ fill_color = <<>>
    /\ exc = "none"
    /\ svg_file = <<>>
    /\ toml_file = <<>>
    /\ backup_file = <<>>
    /\ written = "no"

Merge ==
    /\ pc = "merge"
    /\ data2write' = merge_file_data(data_fromtoml, element_list)
    /\ pc' = "merged"
    /\ UNCHANGED <<element_list, data_fromtoml, remerged, root, root_in, args, fill_color, exc>>
    /\ UNCHANGED diskVars

MergeAgain ==
    /\ pc = "merged"
    /\ remerged' = merge_file_data(data2write, element_list)
    /\ pc' = "remerged"
    /\ UNCHANGED <<element_list, data_fromtoml, data2write, root, root_in, args, fill_color, exc>>
    /\ UNCHANGED diskVars

NextMerge == Merge \/ MergeAgain

SpecMerge == InitMerge /\ [][NextMerge]_vars

-----------------------------------------------------------------------------
(* C1: the merge result is the rows whose element is a current label,     *)
(* unchanged and in their order, followed by one empty row per label that *)
(* no kept row carries, in document order.                                *)
KeptOf(rows, labels) == SelectSeq(rows, LAMBDA r : r.element \in Range(labels))

NewOf(rows, labels) ==
    LET keptElements == {r.element : r \in Range(KeptOf(rows, labels))}
        fresh == SelectSeq(labels, LAMBDA l : l \notin keptElements)
    IN  [i \in 1..Len(fresh) |-> [element |-> fresh[i], balloon |-> <<>>, link |-> <<>>]]

C1_MergeOrder ==
    pc \in {"merged", "remerged"} =>
        /\ data2write = KeptOf(data_fromtoml, element_list) \o NewOf(data_fromtoml, element_list)
        /\ \A i \in 1..Len(data2write) : data2write[i].element \in Range(element_list)

(* the spec's example shape: a stale row dropped, a kept row, a new label *)
C1_Witness ==
    /\ pc = "merged"
    /\ data_fromtoml = <<[element |-> A, balloon |-> Tip, link |-> None],
                         [element |-> B, balloon |-> Tip, link |-> None]>>
    /\ element_list = <<C, A>>
    /\ data2write = <<[element |-> A, balloon |-> Tip, link |-> None],
                      [element |-> C, balloon |-> None, link |-> None]>>

(* C2: reconciling the merge result again against the same labels changes nothing *)
C2_MergeIdempotent == pc = "remerged" => remerged = data2write

(* repeated labels and repeated keys, merged twice *)
C2_Witness ==
    /\ pc = "remerged"
    /\ \E i, j \in 1..Len(element_list) : i # j /\ element_list[i] = element_list[j]
    /\ \E i, j \in 1..Len(data_fromtoml) :
           i # j /\ data_fromtoml[i].element = data_fromtoml[j].element
                 /\ data_fromtoml[i].element \in Range(element_list)
    /\ Len(data2write) > Len(KeptOf(data_fromtoml, element_list))

-----------------------------------------------------------------------------
(* Reading a tree by paths (sequences of child positions) *)
RECURSIVE Paths(_)
Paths(node) ==
    {<<>>} \cup UNION {{<<i>> \o q : q \in Paths(node.children[i])} :
                          i \in 1..Len(node.children)}

RECURSIVE NodeAt(_, _)
NodeAt(node, path) ==
    IF path = <<>> THEN node
    ELSE IF Head(path) \in 1..Len(node.children)
         THEN NodeAt(node.children[Head(path)], Tail(path))
         ELSE NoElement

ChildAt(node, path, i) ==
    LET parent == NodeAt(node, path)
    IN  IF i \in 1..Len(parent.children) THEN parent.children[i] ELSE NoElement

(* the root and the groups of the tree handed in *)
ParentPaths == {p \in Paths(root_in) : NodeAt(root_in, p).tag \in {SvgTag, GTag}}

(* the <text> children of the root and of the groups, as <<path of parent, position>> *)
TextSlots ==
    {s \in ParentPaths \X (1..4) :
        /\ s[2] <= Len(NodeAt(root_in, s[1]).children)
        /\ ChildAt(root_in, s[1], s[2]).tag = TextTag}

NonVoid(r) == r.balloon # <<>> \/ r.link # <<>>

(* the last record of the sequence with this element that has a balloon or a link *)
HasEntry(data, key) == \E i \in 1..Len(data) : data[i].element = key /\ NonVoid(data[i])

LastEntry(data, key) ==
    data[CHOOSE i \in 1..Len(data) :
            /\ data[i].element = key /\ NonVoid(data[i])
            /\ \A j \in (i + 1)..Len(data) : ~(data[j].element = key /\ NonVoid(data[j]))]

(* what a slot of the rewritten tree shows *)
IsWrapped(new) == new.tag = "a"
InnerText(new) == IF IsWrapped(new) /\ Len(new.children) = 1 THEN new.children[1] ELSE new
HasTooltip(t, balloon, label) ==
    /\ t.tag = TextTag
    /\ t.text = <<>>
    /\ Len(t.children) >= 1
    /\ t.children[1].tag = "title"
    /\ t.children[1].text = balloon
    /\ t.children[1].tail = label
    /\ t.children[1].children = <<>>

TooltipOnlyAt(s, balloon) ==
    LET old == ChildAt(root_in, s[1], s[2])
        new == ChildAt(root, s[1], s[2])
    IN  /\ new.id = old.id
        /\ HasTooltip(new, balloon, old.text)
        /\ Len(NodeAt(root, s[1]).children) = Len(NodeAt(root_in, s[1]).children)

(* C3 as stated: some record with this element has a balloon and no link *)
C3_AnyRecord ==
    pc = "modified" =>
        \A s \in TextSlots : \A i \in 1..Len(data2write) :
            LET r == data2write[i]
                old == ChildAt(root_in, s[1], s[2])
            IN  (old.text # <<>> /\ r.element = old.text /\ r.balloon # <<>> /\ r.link = <<>>)
                    => TooltipOnlyAt(s, r.balloon)

(* C3: a <text> child of the root or of a group whose text is looked up to *)
(* a balloon without a link keeps its place, loses its direct text and     *)
(* gets a <title> first child with the balloon as text and the label as    *)
(* tail; the record looked up is the last one of that element that has a   *)
(* balloon or a link.                                                      *)
C3_TooltipOnly ==
    pc = "modified" =>
        \A s \in TextSlots :
            LET old == ChildAt(root_in, s[1], s[2])
            IN  (old.text # <<>> /\ HasEntry(data2write, old.text)
                 /\ LastEntry(data2write, old.text).balloon # <<>>
                 /\ LastEntry(data2write, old.text).link = <<>>)
                    => TooltipOnlyAt(s, LastEntry(data2write, old.text).balloon)

(* a <text> in a group, behind two siblings, annotated with a tooltip only *)
C3_Witness ==
    /\ pc = "modified"
    /\ \E s \in TextSlots :
           /\ s[1] # <<>> /\ s[2] = 3
           /\ ChildAt(root_in, s[1], s[2]).text = A
           /\ HasEntry(data2write, A)
           /\ LastEntry(data2write, A) = [element |-> A, balloon |-> Tip, link |-> <<>>]
           /\ ChildAt(root, s[1], s[2]).children[1].text = Tip

(* C4 as stated: a child matches when some record with its text has a link *)
C4_AnyRecord ==
    pc = "modified" =>
        \A p \in ParentPaths :
            LET old == NodeAt(root_in, p)
                new == NodeAt(root, p)
                Links(i) == {data2write[k].link : k \in {k \in 1..Len(data2write) :
                                /\ data2write[k].element = old.children[i].text
                                /\ data2write[k].link # <<>>}}
                Matched(i) == /\ old.children[i].tag = TextTag
                              /\ old.children[i].text # <<>>
                              /\ Links(i) # {}
            IN  /\ Len(new.children) = Len(old.children)
                /\ \A i \in 1..Len(old.children) :
                      IF Matched(i)
                      THEN /\ new.children[i].tag = "a"
                           /\ new.children[i].attrib[HrefAttr] \in Links(i)
                           /\ new.children[i].attrib["target"] = <<"_blank">>
                           /\ Len(new.children[i].children) = 1
                           /\ new.children[i].children[1].id = old.children[i].id
                      ELSE i <= Len(new.children) /\ new.children[i].id = old.children[i].id

(* C4: under every root or group, each <text> child whose text is looked  *)
(* up to a link (in the last record of that element that has a balloon or *)
(* a link) is replaced at its own position by an <a> with that href,      *)
(* target _blank and the <text> as only child; the number of children is  *)
(* unchanged and every other child keeps its position.                    *)
C4_LinkKeepsPositions ==
    pc = "modified" =>
        \A p \in ParentPaths :
            LET old == NodeAt(root_in, p)
                new == NodeAt(root, p)
                Matched(i) == /\ old.children[i].tag = TextTag
                              /\ old.children[i].text # <<>>
                              /\ HasEntry(data2write, old.children[i].text)
                              /\ LastEntry(data2write, old.children[i].text).link # <<>>
            IN  /\ Len(new.children) = Len(old.children)
                /\ \A i \in 1..Len(old.children) :
                      IF Matched(i)
                      THEN /\ new.children[i].tag = "a"
                           /\ new.children[i].attrib[HrefAttr] =
                                  LastEntry(data2write, old.children[i].text).link
                           /\ new.children[i].attrib["target"] = <<"_blank">>
                           /\ Len(new.children[i].children) = 1
                           /\ new.children[i].children[1].id = old.children[i].id
                           /\ new.children[i].children[1].tag = TextTag
                      ELSE i <= Len(new.children) /\ new.children[i].id = old.children[i].id

(* a group of three children: two linked <text> around a child that is not one *)
C4_Witness ==
    /\ pc = "modified"
    /\ \E p \in ParentPaths :
           LET old == NodeAt(root_in, p)
               new == NodeAt(root, p)
           IN  /\ Len(old.children) = 3
               /\ old.children[1].tag = TextTag /\ old.children[3].tag = TextTag
               /\ old.children[2].tag = RectTag
               /\ new.children[1].tag = "a" /\ new.children[3].tag = "a"
               /\ new.children[2].id = old.children[2].id

NoMatchAnywhere ==
    \A p \in Paths(root_in) :
        LET n == NodeAt(root_in, p)
        IN  n.tag = TextTag =>
                \A i \in 1..Len(data2write) :
                    ~(NonVoid(data2write[i]) /\ data2write[i].element = n.text)

(* C5: when no <text> element of the document has a text that is the      *)
(* element of a record with a balloon or a link, the tree is unchanged.   *)
C5_NoMatchRoundTrip == (pc = "modified" /\ NoMatchAnywhere) => root = root_in

(* records with annotations, and <text> children that none of them matches *)
C5_Witness ==
    /\ pc = "modified"
    /\ NoMatchAnywhere
    /\ \E i \in 1..Len(data2write) : NonVoid(data2write[i])
    /\ \E s \in TextSlots : ChildAt(root_in, s[1], s[2]).text # <<>>
    /\ root = root_in

Annotated(new) ==
    \/ IsWrapped(new)
    \/ /\ new.text = <<>> /\ Len(new.children) >= 1
       /\ new.children[1].tag = "title" /\ new.children[1].id = 0

(* C9: a <text> child of the root or of a group whose trimmed text is the *)
(* element of a record with a balloon or a link is annotated.             *)
C9_TrimmedJoin ==
    pc = "modified" =>
        \A s \in TextSlots :
            LET old == ChildAt(root_in, s[1], s[2])
            IN  (old.text # <<>> /\ HasEntry(data2write, strip(old.text)))
                    => Annotated(ChildAt(root, s[1], s[2]))

(* what is applied to a <text> child of the root or of a group *)
AppliedLink(new) == IF IsWrapped(new) THEN new.attrib[HrefAttr] ELSE <<>>

AppliedBalloon(new) ==
    LET t == InnerText(new)
    IN  IF /\ t.text = <<>> /\ Len(t.children) >= 1
           /\ t.children[1].tag = "title" /\ t.children[1].id = 0
        THEN t.children[1].text ELSE <<>>

LastOfKey(data, key) ==
    data[CHOOSE i \in 1..Len(data) :
            data[i].element = key /\ \A j \in (i + 1)..Len(data) : data[j].element # key]

(* C10 as stated: the last record of the key decides, also when it is empty *)
C10_LastRecordWins ==
    pc = "modified" =>
        \A s \in TextSlots :
            LET old == ChildAt(root_in, s[1], s[2])
                new == ChildAt(root, s[1], s[2])
            IN  (old.text # <<>> /\ \E i \in 1..Len(data2write) : data2write[i].element = old.text)
                    => /\ AppliedBalloon(new) = LastOfKey(data2write, old.text).balloon
                       /\ AppliedLink(new) = LastOfKey(data2write, old.text).link

(* C10: with several records of the same element, the balloon and link    *)
(* applied are those of the last record of that element that has a        *)
(* balloon or a link; records with both fields empty are passed over.     *)
C10_LastEntryWins ==
    pc = "modified" =>
        \A s \in TextSlots :
            LET old == ChildAt(root_in, s[1], s[2])
                new == ChildAt(root, s[1], s[2])
            IN  (old.text # <<>> /\ \E i \in 1..Len(data2write) : data2write[i].element = old.text)
                    => IF HasEntry(data2write, old.text)
                       THEN /\ AppliedBalloon(new) = LastEntry(data2write, old.text).balloon
                            /\ AppliedLink(new) = LastEntry(data2write, old.text).link
                       ELSE new = old

(* two records of one key with different annotations, the later one applied *)
C10_Witness ==
    /\ pc = "modified"
    /\ Len(data2write) = 2
    /\ data2write[1].element = data2write[2].element
    /\ NonVoid(data2write[1]) /\ NonVoid(data2write[2])
    /\ data2write[1].link # data2write[2].link
    /\ \E s \in TextSlots :
           /\ ChildAt(root_in, s[1], s[2]).text = data2write[1].element
           /\ AppliedLink(ChildAt(root, s[1], s[2])) = data2write[2].link
           /\ AppliedBalloon(ChildAt(root, s[1], s[2])) = data2write[2].balloon

-----------------------------------------------------------------------------
(* the colour the resolver is specified to return *)
RECURSIVE NonSemicolonRun(_)
NonSemicolonRun(s) ==
    IF s = <<>> \/ Head(s) = ";" THEN <<>> ELSE <<Head(s)>> \o NonSemicolonRun(Tail(s))

(* the fill declaration of an inline style: fill, optional blanks, a colon, *)
(* optional blanks, the value up to ';' or the end, trimmed; <<>> if none   *)
DeclaredAt(s, i) ==
    IF i + 3 <= Len(s) /\ SubSeq(s, i, i + 3) = <<"f", "i", "l", "l">>
    THEN LET rest == lstrip(SubSeq(s, i + 4, Len(s)))
         IN  IF rest # <<>> /\ Head(rest) = ":" THEN NonSemicolonRun(Tail(rest)) ELSE <<>>
    ELSE <<>>

HasStyleFill(s) == \E i \in 1..Len(s) : DeclaredAt(s, i) # <<>>

StyleFill(s) ==
    strip(DeclaredAt(s, CHOOSE i \in 1..Len(s) :
                           DeclaredAt(s, i) # <<>> /\ \A k \in 1..(i - 1) : DeclaredAt(s, k) = <<>>))

RECURSIVE FirstTextPath(_)
(* path of the first <text> in document order, <<0>> if there is none *)
FirstTextPath(node) ==
    IF node.tag = TextTag THEN <<>>
    ELSE LET hits == {j \in 1..Len(node.children) : FirstTextPath(node.children[j]) # <<0>>}
         IN  IF hits = {} THEN <<0>>
             ELSE LET j == CHOOSE j \in hits : \A k \in hits : j <= k
                  IN  <<j>> \o FirstTextPath(node.children[j])

RECURSIVE ColourFrom(_, _)
(* nearest level first, style before attribute within a level *)
ColourFrom(tree, path) ==
    LET a == NodeAt(tree, path).attrib
    IN  IF "style" \in DOMAIN a /\ HasStyleFill(a["style"]) THEN StyleFill(a["style"])
        ELSE IF "fill" \in DOMAIN a THEN a["fill"]
        ELSE IF path = <<>> THEN Black
        ELSE ColourFrom(tree, SubSeq(path, 1, Len(path) - 1))

SpecifiedColour(tree) ==
    IF FirstTextPath(tree) = <<0>> THEN Black ELSE ColourFrom(tree, FirstTextPath(tree))

(* C6: resolveFillColor returns the colour of the nearest level of the    *)
(* first <text>'s ancestor chain that declares one, the inline style fill *)
(* before the fill attribute on a level, and "#000000" when none does.    *)
C6_FillResolution ==
    pc = "filled" => (exc = "none" /\ fill_color = SpecifiedColour(root_in))

DeclaredHeight ==
    IF "height" \in DOMAIN root_in.attrib /\ ParseInt(root_in.attrib["height"]).ok
    THEN ParseInt(root_in.attrib["height"]).value ELSE DefaultHeight

RequestedLines ==
    Len(Lines(args.explanation_text)) + (IF Truthy(args.additional_link) THEN 1 ELSE 0)

(* C7: appendCaption writes height H + numLines*(f*1.2) + oy, leaves the  *)
(* width alone and gives the caption <text> the y-coordinate H.           *)
C7_CaptionLayout ==
    pc = "captioned" =>
        /\ root.attrib["height"] =
               FloatStr(10 * DeclaredHeight + RequestedLines * (12 * args.layout.font_size)
                        + 10 * args.layout.position_offset[2])
        /\ ("width" \in DOMAIN root.attrib) = ("width" \in DOMAIN root_in.attrib)
        /\ "width" \in DOMAIN root.attrib => root.attrib["width"] = root_in.attrib["width"]
        /\ Len(root.children) > Len(root_in.children)
        /\ LET caption == root.children[Len(root_in.children) + 1]
           IN  /\ caption.tag = TextTag
               /\ caption.attrib["y"] = FloatStr(10 * DeclaredHeight)

-----------------------------------------------------------------------------
-----------------------------------------------------------------------------
(* a link argument that was given and is not a list of exactly two strings *)
WellFormedLink(additional_link) ==
    /\ additional_link.kind = "list"
    /\ Len(additional_link.items) = 2
    /\ additional_link.items[1].isStr /\ additional_link.items[2].isStr

MalformedLink(additional_link) ==
    additional_link.kind # "none" /\ ~WellFormedLink(additional_link)

NewChildren == SubSeq(root.children, Len(root_in.children) + 1, Len(root.children))

(* C11: for a link argument that is not a pair of two strings, appendCaption *)
(* returns without raising, appends the caption <text> and appends no      *)
(* hyperlink node (calls ended by the resolver's TypeError set aside).     *)
C11_MalformedLinkNotFatal ==
    (pc = "captioned" /\ MalformedLink(args.additional_link) /\ exc # "TypeError") =>
        /\ exc = "none"
        /\ Len(NewChildren) = 1
        /\ NewChildren[1].tag = TextTag
        /\ Len(NewChildren[1].children) = Len(Lines(args.explanation_text))
        /\ \A j \in 1..Len(NewChildren) : NewChildren[j].tag # SvgATag

-----------------------------------------------------------------------------
(* the tooltip children of a <text>: <title> as parsed from an SVG document *)
(* or as created by the rewriter                                            *)
TooltipCount(t) ==
    Cardinality({j \in 1..Len(t.children) : t.children[j].tag \in {"title", SvgTitleTag}})

(* C12: a <text> child of the root or of a group whose text is a lookup   *)
(* key has afterwards exactly one tooltip child when its record has a     *)
(* balloon and none when it has not: tooltips it had before are removed.  *)
C12_TooltipReplaced ==
    pc = "modified" =>
        \A s \in TextSlots :
            LET old == ChildAt(root_in, s[1], s[2])
                new == ChildAt(root, s[1], s[2])
            IN  (old.text # <<>> /\ HasEntry(data2write, old.text))
                    => TooltipCount(InnerText(new)) =
                           (IF LastEntry(data2write, old.text).balloon # <<>> THEN 1 ELSE 0)

-----------------------------------------------------------------------------
(* the elements the rewriter created in a tree *)
CreatedTags(tree) == {NodeAt(tree, p).tag : p \in {q \in Paths(tree) : NodeAt(tree, q).id = 0}}

(* C13: applying the annotations a second time, with the same records, to *)
(* the tree the first application produced changes nothing.               *)
C13_ModifyIdempotent == pc = "modified_again" => root = root_in

(* a tree in which the first application created a tooltip and a link,    *)
(* applied again                                                          *)
C13_Witness ==
    /\ pc = "modified_again"
    /\ CreatedTags(root_in) = {"title", "a"}
    /\ \E i \in 1..Len(root_in.children) :
           /\ root_in.children[i].tag = TextTag
           /\ root_in.children[i].text = <<>>
           /\ TooltipCount(root_in.children[i]) = 1
    /\ root = root_in

=============================================================================
